---- MODULE Spec2Model ----
(***************************************************************************)
(* Model of the SeraAI newsletter pipeline (src/main.py): the helper       *)
(* functions and the six request handlers, with the scraping target, the   *)
(* generation model, the document store and the campaign provider as       *)
(* nondeterministic environments.                                          *)
(*                                                                         *)
(* Python strings are sequences of one-character strings, or of tokens     *)
(* where a whole literal of the source (the placeholder paragraph, the     *)
(* closing body tag) is matched as a unit.                                 *)
(***************************************************************************)
EXTENDS Integers, Sequences, FiniteSets, TLC

VARIABLES
    template_html, custom_html, modified_html, splice_pc,
    model_reply, summary_result, summary_pc,
    today, ist_time_str, am_pm, utc_result, utc_pc,
    site, user_date, fetched_pdfs, fetch_pc,
    store, request, env, response, calls, sched

spliceVars == <<template_html, custom_html, modified_html, splice_pc>>
summaryVars == <<model_reply, summary_result, summary_pc>>
utcVars == <<today, ist_time_str, am_pm, utc_result, utc_pc>>
fetchVars == <<site, user_date, fetched_pdfs, fetch_pc>>
apiVars == <<store, request, env, response, calls, sched>>
vars == <<spliceVars, summaryVars, utcVars, fetchVars, apiVars>>

(***************************************************************************)
(* Bounds                                                                  *)
(***************************************************************************)
MaxTemplateLen == 4
MaxReplyLen == 4
MaxLinks == 2
MaxStore == 3
MaxDocs == 2
MaxBatch == 2
MaxTemplates == 3

(***************************************************************************)
(* Generic string helpers                                                  *)
(***************************************************************************)
SeqsUpTo(S, n) == UNION {[1..k -> S] : k \in 0..n}
SetMin(S) == CHOOSE x \in S : \A y \in S : x <= y
SetMax(S) == CHOOSE x \in S : \A y \in S : x >= y

\* old occurs in s as a contiguous substring (Python: old in s)
str_contains(s, old) ==
    \E i \in 1..(Len(s) - Len(old) + 1) : SubSeq(s, i, i + Len(old) - 1) = old

\* Python str.replace(old, new): every non-overlapping occurrence, left to right
RECURSIVE str_replace(_, _, _)
str_replace(s, old, new) ==
    IF Len(s) < Len(old) \/ Len(old) = 0 THEN s
    ELSE IF SubSeq(s, 1, Len(old)) = old
         THEN new \o str_replace(SubSeq(s, Len(old) + 1, Len(s)), old, new)
         ELSE <<Head(s)>> \o str_replace(Tail(s), old, new)

\* number of non-overlapping occurrences of old in s, left to right
RECURSIVE str_count(_, _)
str_count(s, old) ==
    IF Len(s) < Len(old) \/ Len(old) = 0 THEN 0
    ELSE IF SubSeq(s, 1, Len(old)) = old
         THEN 1 + str_count(SubSeq(s, Len(old) + 1, Len(s)), old)
         ELSE str_count(Tail(s), old)

(***************************************************************************)
(* Python values                                                           *)
(***************************************************************************)
PyNone == [py |-> "None"]
PyStr(s) == [py |-> "str", s |-> s]
PyDict(keys, date) == [py |-> "dict", keys |-> keys, date |-> date]
\* truth value of a Python object: None, empty string and empty dict are false
py_truthy(v) ==
    CASE v.py = "None" -> FALSE
      [] v.py = "str" -> v.s # <<>>
      [] v.py = "dict" -> v.keys # {}

(***************************************************************************)
(* A component that takes no part in a specification stays at rest         *)
(***************************************************************************)
SpliceIdle ==
    /\ template_html = <<>>
    /\ custom_html = <<>>
    /\ modified_html = <<>>
    /\ splice_pc = "idle"

SummaryIdle ==
    /\ model_reply = [raised |-> FALSE, text |-> <<>>]
    /\ summary_result = PyNone
    /\ summary_pc = "idle"

NoDate == [year |-> 0, month |-> 0, day |-> 0]
NoResult == [raised |-> FALSE, value |-> <<>>]

UtcIdle ==
    /\ today = NoDate
    /\ ist_time_str = <<>>
    /\ am_pm = <<>>
    /\ utc_result = NoResult
    /\ utc_pc = "idle"

NoSite == [status |-> 0, has_div |-> FALSE, items |-> <<>>]

FetchIdle ==
    /\ site = NoSite
    /\ user_date = NoDate
    /\ fetched_pdfs = NoResult
    /\ fetch_pc = "idle"

NoRequest == [op |-> "none"]
NoResponse == [status_code |-> 0, detail |-> <<>>, body |-> <<>>]
SchedIdle == [pc |-> "idle", selected_template |-> [id |-> 0, name |-> ""],
              previewed_id |-> 0, template_html |-> <<>>,
              scheduled_utc_time |-> <<>>, email_campaigns |-> <<>>]

\* the service has just started: nothing stored, no request handled yet
ApiIdle ==
    /\ store = <<>>
    /\ request = NoRequest
    /\ env = [none |-> TRUE]
    /\ response = NoResponse
    /\ calls = <<>>
    /\ sched = SchedIdle

\* str.strip(): drop leading and trailing whitespace
RECURSIVE str_lstrip(_)
str_lstrip(s) == IF s # <<>> /\ Head(s) = " " THEN str_lstrip(Tail(s)) ELSE s
RECURSIVE str_rstrip(_)
str_rstrip(s) ==
    IF s # <<>> /\ s[Len(s)] = " " THEN str_rstrip(SubSeq(s, 1, Len(s) - 1)) ELSE s
str_strip(s) == str_rstrip(str_lstrip(s))

str_startswith(s, c) == s # <<>> /\ s[1] = c
str_endswith(s, c) == s # <<>> /\ s[Len(s)] = c

\* str.find / str.rfind of a single character, 0-based, -1 when absent
RECURSIVE str_find_from(_, _, _)
str_find_from(s, c, i) ==
    IF i > Len(s) THEN -1
    ELSE IF s[i] = c THEN i - 1 ELSE str_find_from(s, c, i + 1)
str_find(s, c) == str_find_from(s, c, 1)
RECURSIVE str_rfind_from(_, _, _)
str_rfind_from(s, c, i) ==
    IF i < 1 THEN -1
    ELSE IF s[i] = c THEN i - 1 ELSE str_rfind_from(s, c, i - 1)
str_rfind(s, c) == str_rfind_from(s, c, Len(s))

\* s[start:end] for 0 <= start, 0 <= end
str_slice(s, start, end) == SubSeq(s, start + 1, IF end > Len(s) THEN Len(s) ELSE end)

(***************************************************************************)
(* datetime: strptime, strftime, the proleptic Gregorian calendar          *)
(***************************************************************************)
Digits == <<"0", "1", "2", "3", "4", "5", "6", "7", "8", "9">>
IsDigit(c) == \E i \in 1..10 : Digits[i] = c
DigitVal(c) == (CHOOSE i \in 1..10 : Digits[i] = c) - 1
Pad2(n) == <<Digits[((n \div 10) % 10) + 1], Digits[(n % 10) + 1]>>
Pad4(n) == Pad2(n \div 100) \o Pad2(n % 100)
str_lower(c) == CASE c = "A" -> "a" [] c = "P" -> "p" [] c = "M" -> "m" [] OTHER -> c

\* A numeric directive of strptime: the two-digit alternatives of its regular
\* expression are tried before the one-digit alternative.
\*   %m  1[0-2]|0[1-9]|[1-9]      %d  3[01]|[12]\d|0[1-9]|[1-9]| [1-9]
\*   %I  1[0-2]|0[1-9]|[1-9]      %M  [0-5]\d|\d
DirectiveLow(d) == IF d = "M" THEN 0 ELSE 1
DirectiveHigh(d) == CASE d = "m" -> 12 [] d = "d" -> 31 [] d = "I" -> 12 [] d = "M" -> 59

\* [ok, val, next]: match directive d of the format at position i of s
match_directive(s, i, d) ==
    LET fail == [ok |-> FALSE, val |-> 0, next |-> i]
        has(k) == i + k - 1 <= Len(s) /\ \A j \in i..(i + k - 1) : IsDigit(s[j])
        two == 10 * DigitVal(s[i]) + DigitVal(s[i + 1])
    IN  CASE d = "Y" ->
               IF has(4)
               THEN [ok |-> TRUE, next |-> i + 4,
                     val |-> 1000 * DigitVal(s[i]) + 100 * DigitVal(s[i + 1])
                             + 10 * DigitVal(s[i + 2]) + DigitVal(s[i + 3])]
               ELSE fail
          [] d \in {"m", "d", "I", "M"} ->
               IF has(2) /\ two >= DirectiveLow(d) /\ two <= DirectiveHigh(d)
               THEN [ok |-> TRUE, val |-> two, next |-> i + 2]
               ELSE IF has(1) /\ DigitVal(s[i]) >= DirectiveLow(d)
                    THEN [ok |-> TRUE, val |-> DigitVal(s[i]), next |-> i + 1]
                    ELSE IF d = "d" /\ i + 1 <= Len(s) /\ s[i] = " "
                            /\ IsDigit(s[i + 1]) /\ DigitVal(s[i + 1]) >= 1
                         THEN [ok |-> TRUE, val |-> DigitVal(s[i + 1]), next |-> i + 2]
                         ELSE fail
          [] d = "p" ->
               IF i + 1 <= Len(s) /\ str_lower(s[i]) \in {"a", "p"}
                  /\ str_lower(s[i + 1]) = "m"
               THEN [ok |-> TRUE, val |-> IF str_lower(s[i]) = "p" THEN 1 ELSE 0,
                     next |-> i + 2]
               ELSE fail
          [] d = " " ->
               \* whitespace in the format matches one or more whitespace characters
               IF i <= Len(s) /\ s[i] = " "
               THEN [ok |-> TRUE, val |-> 0,
                     next |-> CHOOSE n \in (i + 1)..(Len(s) + 1) :
                                /\ \A j \in i..(n - 1) : s[j] = " "
                                /\ n = Len(s) + 1 \/ s[n] # " "]
               ELSE fail
          [] OTHER ->
               IF i <= Len(s) /\ s[i] = d
               THEN [ok |-> TRUE, val |-> 0, next |-> i + 1]
               ELSE fail

\* the fields found so far are a function from directive to value; the whole
\* string has to be consumed
RECURSIVE strptime_fields(_, _, _, _, _)
strptime_fields(s, i, fmt, j, found) ==
    IF j > Len(fmt)
    THEN [ok |-> i = Len(s) + 1, fields |-> found]
    ELSE LET r == match_directive(s, i, fmt[j])
         IN  IF ~r.ok THEN [ok |-> FALSE, fields |-> found]
             ELSE strptime_fields(s, r.next, fmt, j + 1,
                                  IF fmt[j] \in DOMAIN found
                                  THEN [found EXCEPT ![fmt[j]] = r.val]
                                  ELSE found)

is_leap(y) == y % 4 = 0 /\ (y % 100 # 0 \/ y % 400 = 0)
days_in_month(y, m) ==
    IF m = 2 THEN (IF is_leap(y) THEN 29 ELSE 28)
    ELSE IF m \in {4, 6, 9, 11} THEN 30 ELSE 31

NoFields == [Y |-> 1900, m |-> 1, d |-> 1, I |-> 12, M |-> 0, p |-> 0]

\* the datetime built from the matched fields: 12 AM is hour 0, 12 PM hour 12,
\* and a day the month does not have is a ValueError
datetime_of(r) ==
    LET f == r.fields
        hour == IF f.I = 12 THEN (IF f.p = 1 THEN 12 ELSE 0)
                ELSE (IF f.p = 1 THEN f.I + 12 ELSE f.I)
    IN  [ok |-> r.ok /\ f.Y >= 1 /\ f.d <= days_in_month(f.Y, f.m),
         year |-> f.Y, month |-> f.m, day |-> f.d, hour |-> hour, minute |-> f.M]

\* datetime.strptime: [ok, year, month, day, hour, minute]; ~ok is ValueError
strptime(s, fmt) == datetime_of(strptime_fields(s, 1, fmt, 1, NoFields))

DateFormat == <<"Y", "-", "m", "-", "d">>
DateTimeFormat == <<"Y", "-", "m", "-", "d", " ", "I", ":", "M", " ", "p">>

\* date.strftime("%Y-%m-%d")
strftime_date(dt) == Pad4(dt.year) \o <<"-">> \o Pad2(dt.month) \o <<"-">> \o Pad2(dt.day)
\* datetime.strftime("%Y-%m-%dT%H:%M:%S.%fZ") of a time with no seconds
strftime_utc(dt) ==
    strftime_date(dt) \o <<"T">> \o Pad2(dt.hour) \o <<":">> \o Pad2(dt.minute)
    \o <<":", "0", "0", ".", "0", "0", "0", "0", "0", "0", "Z">>

\* proleptic Gregorian ordinal, 0001-01-01 is day 1
days_before_year(y) == (y - 1) * 365 + (y - 1) \div 4 - (y - 1) \div 100 + (y - 1) \div 400
RECURSIVE days_before_month(_, _)
days_before_month(y, m) ==
    IF m = 1 THEN 0 ELSE days_before_month(y, m - 1) + days_in_month(y, m - 1)
ymd2ord(y, m, d) == days_before_year(y) + days_before_month(y, m) + d

\* a 400-year cycle has 146097 days, a century 36524, four years 1461
ord2ymd(ordinal) ==
    LET n0 == ordinal - 1
        n400 == n0 \div 146097
        n1r == n0 % 146097
        n100 == n1r \div 36524
        n2r == n1r % 36524
        n4 == n2r \div 1461
        n3r == n2r % 1461
        n1 == n3r \div 365
        n == n3r % 365
        year == n400 * 400 + 1 + n100 * 100 + n4 * 4 + n1
    IN  IF n1 = 4 \/ n100 = 4
        THEN [year |-> year - 1, month |-> 12, day |-> 31]
        ELSE LET month == CHOOSE m \in 1..12 :
                              /\ days_before_month(year, m) <= n
                              /\ n < days_before_month(year, m) + days_in_month(year, m)
             IN  [year |-> year, month |-> month,
                  day |-> n - days_before_month(year, month) + 1]

(***************************************************************************)
(* convert_to_utc                                                          *)
(***************************************************************************)
\* utcoffset of pytz "Asia/Kolkata" for present-day dates, in minutes
IstOffsetMinutes == 330

\* ist_tz.localize(ist_datetime): the instant, in minutes since day 0 00:00 UTC
localize_ist(ist_datetime) ==
    ymd2ord(ist_datetime.year, ist_datetime.month, ist_datetime.day) * 1440
    + ist_datetime.hour * 60 + ist_datetime.minute - IstOffsetMinutes

\* astimezone(pytz.utc): date and time of day of the instant
utc_fields(utc_date, instant) ==
    [year |-> utc_date.year, month |-> utc_date.month, day |-> utc_date.day,
     hour |-> (instant % 1440) \div 60, minute |-> instant % 60]
astimezone_utc(instant) == utc_fields(ord2ymd(instant \div 1440), instant)

\* a conversion that shifts the time of day but keeps the local date
same_day_utc(ist_datetime) ==
    utc_fields(ist_datetime, ist_datetime.hour * 60 + ist_datetime.minute
                             + 1440 - IstOffsetMinutes)
convert_datetime_same_day(ist_datetime) ==
    IF ~ist_datetime.ok THEN [raised |-> TRUE, value |-> <<>>]
    ELSE [raised |-> FALSE, value |-> strftime_utc(same_day_utc(ist_datetime))]

\* lines 357-363 on the parsed datetime; raised is the ValueError of strptime
convert_datetime(ist_datetime) ==
    IF ~ist_datetime.ok THEN [raised |-> TRUE, value |-> <<>>]
    ELSE [raised |-> FALSE,
          value |-> strftime_utc(astimezone_utc(localize_ist(ist_datetime)))]

convert_to_utc(ist_date_str, time_str, period) ==
    convert_datetime(strptime(ist_date_str \o <<" ">> \o time_str \o <<" ">> \o period,
                              DateTimeFormat))

Date(y, m, d) == [year |-> y, month |-> m, day |-> d]
Todays == {Date(2024, 7, 16), Date(2024, 3, 1), Date(2023, 3, 1), Date(2024, 1, 1),
           Date(2024, 12, 31), Date(2100, 3, 1)}
WellFormedTimes == {Pad2(h) \o <<":">> \o Pad2(m) : h \in 1..12, m \in 0..59}
OddTimes == {<<"9", ":", "3", "0">>, <<"9", ":", "5">>, <<"1", "3", ":", "0", "0">>,
             <<"0", "0", ":", "3", "0">>, <<"0", "9", ":", "6", "0">>,
             <<"0", "9", "3", "0">>, <<"0", "9", ":", "3", "0", " ">>, <<>>}
Periods == {<<"A", "M">>, <<"P", "M">>, <<"a", "m">>, <<"X", "M">>, <<>>}

UtcInit ==
    /\ today \in Todays
    /\ ist_time_str \in WellFormedTimes \cup OddTimes
    /\ am_pm \in Periods
    /\ utc_result = NoResult
    /\ utc_pc = "ready"

(***************************************************************************)
(* fetch_from_website                                                      *)
(***************************************************************************)
UploadFormat == <<"d", "-", "m", "-", "Y">>
D_2024_07_16 == <<"2", "0", "2", "4", "-", "0", "7", "-", "1", "6">>
D_16_07_2024 == <<"1", "6", "-", "0", "7", "-", "2", "0", "2", "4">>

\* re.search(r"\d{2}-\d{2}-\d{4}", text): the first match, or None
is_date_token(text, i) ==
    /\ i + 9 <= Len(text)
    /\ \A j \in {0, 1, 3, 4, 6, 7, 8, 9} : IsDigit(text[i + j])
    /\ text[i + 2] = "-" /\ text[i + 5] = "-"
re_search_date(text) ==
    IF \E i \in 1..Len(text) : is_date_token(text, i)
    THEN LET i == CHOOSE i \in 1..Len(text) :
                      /\ is_date_token(text, i)
                      /\ \A j \in 1..(i - 1) : ~is_date_token(text, j)
         IN  [found |-> TRUE, group |-> SubSeq(text, i, i + 9)]
    ELSE [found |-> FALSE, group |-> <<>>]

\* An <li> of the listing: whether it has an <a href>, what the href looks
\* like, whether the anchor holds the coloured upload <div> and its text, and
\* the status the site answers when the document is requested.
is_document_href(href) == href \in {".pdf", "view-pdf"}
download_href(href) == IF href = "view-pdf" THEN "sci-get-pdf" ELSE href

\* first loop, over the <li> at positions i..Len(items): the kept links, or raised
RECURSIVE collect_pdf_links(_, _, _)
collect_pdf_links(items, i, target) ==
    IF i > Len(items) THEN [raised |-> FALSE, value |-> <<>>]
    ELSE LET li == items[i]
             rest == collect_pdf_links(items, i + 1, target)
             token == re_search_date(li.upload)
             upload_date == strptime(token.group, UploadFormat)
         IN  IF ~(li.has_a /\ is_document_href(li.href) /\ li.has_upload_div)
             THEN rest
             ELSE IF ~token.found \/ ~upload_date.ok
                  THEN [raised |-> TRUE, value |-> <<>>]
                  ELSE IF Date(upload_date.year, upload_date.month, upload_date.day)
                          = target
                       THEN IF rest.raised THEN rest
                            ELSE [raised |-> FALSE,
                                  value |-> <<[link |-> i, href |-> download_href(li.href),
                                               status |-> li.download]>> \o rest.value]
                       ELSE rest

\* second loop: download each kept link, idx counts the kept links from 0
RECURSIVE download_pdf_links(_, _)
download_pdf_links(pdf_links, idx) ==
    IF idx >= Len(pdf_links) THEN <<>>
    ELSE LET link == pdf_links[idx + 1]
             rest == download_pdf_links(pdf_links, idx + 1)
         IN  IF link.status = 200
             THEN <<[pdf_name |-> idx + 1, link |-> link.link, href |-> link.href]>>
                  \o rest
             ELSE rest

\* fetch_from_website with the second loop stopping at the first failed download
RECURSIVE download_until_failure(_, _)
download_until_failure(pdf_links, idx) ==
    IF idx >= Len(pdf_links) THEN <<>>
    ELSE LET link == pdf_links[idx + 1]
         IN  IF link.status = 200
             THEN <<[pdf_name |-> idx + 1, link |-> link.link, href |-> link.href]>>
                  \o download_until_failure(pdf_links, idx + 1)
             ELSE <<>>
fetch_from_website_stop_on_failure(page, target) ==
    IF page.status = 200 /\ page.has_div
    THEN LET pdf_links == collect_pdf_links(page.items, 1, target)
         IN  IF pdf_links.raised THEN pdf_links
             ELSE [raised |-> FALSE, value |-> download_until_failure(pdf_links.value, 0)]
    ELSE [raised |-> FALSE, value |-> <<>>]

fetch_from_website(page, target) ==
    IF page.status = 200 /\ page.has_div
    THEN LET pdf_links == collect_pdf_links(page.items, 1, target)
         IN  IF pdf_links.raised THEN pdf_links
             ELSE [raised |-> FALSE, value |-> download_pdf_links(pdf_links.value, 0)]
    ELSE [raised |-> FALSE, value |-> <<>>]

U_16_07_2024 == <<"o", "n", " ">> \o D_16_07_2024
U_17_07_2024 == <<"1", "7", "-", "0", "7", "-", "2", "0", "2", "4">>
UploadTexts == {U_16_07_2024, U_17_07_2024, <<"s", "o", "o", "n">>,
                <<"3", "1", "-", "0", "2", "-", "2", "0", "2", "4">>}
ListItems == [has_a : {TRUE}, href : {".pdf", "view-pdf", ".html"},
              has_upload_div : {TRUE}, upload : UploadTexts, download : {200, 404}]
             \cup [has_a : {TRUE}, href : {".pdf", "view-pdf"},
                   has_upload_div : {FALSE}, upload : {<<>>}, download : {200}]
             \cup {[has_a |-> FALSE, href |-> ".html", has_upload_div |-> FALSE,
                    upload |-> <<>>, download |-> 404]}
Sites == [status : {200}, has_div : {TRUE}, items : SeqsUpTo(ListItems, MaxLinks)]
         \cup [status : {200, 503}, has_div : {FALSE}, items : {<<>>}]
         \cup [status : {503}, has_div : {TRUE},
               items : SeqsUpTo({i \in ListItems : i.href = ".pdf" /\ i.download = 200}, 1)]

FetchInit ==
    /\ site \in Sites
    /\ user_date \in {Date(2024, 7, 16), Date(2024, 7, 17)}
    /\ fetched_pdfs = NoResult
    /\ fetch_pc = "ready"

(***************************************************************************)
(* Summary schema and json.loads                                           *)
(***************************************************************************)
SummaryFields == {"date", "CA", "title", "Respondent", "background",
                  "chronology", "key_points", "conclusion", "Judgment_By"}


\* Tokens of a model reply: braces, whitespace, prose, and three member lists:
\*   "F"  all nine fields, date "2024-07-16"
\*   "G"  all nine fields, date "16-07-2024" (used by the request handlers)
\*   "f"  only the date field
ReplyTokens == {"{", "}", " ", "prose", "F", "f"}
members_of(tok) ==
    CASE tok = "F" -> PyDict(SummaryFields, D_2024_07_16)
      [] tok = "G" -> PyDict(SummaryFields, D_16_07_2024)
      [] tok = "f" -> PyDict({"date"}, D_2024_07_16)

str_without_ws(s) == SelectSeq(s, LAMBDA c : c # " ")

\* json.loads: [ok |-> TRUE, value |-> ...] or [ok |-> FALSE] for JSONDecodeError
json_loads(s) ==
    LET t == str_without_ws(s) IN
    IF t = <<"{", "}">> THEN [ok |-> TRUE, value |-> PyDict({}, <<>>)]
    ELSE IF Len(t) = 3 /\ t[1] = "{" /\ t[3] = "}" /\ t[2] \in {"F", "G", "f"}
         THEN [ok |-> TRUE, value |-> members_of(t[2])]
         ELSE [ok |-> FALSE, value |-> PyNone]

(***************************************************************************)
(* generate_summary                                                        *)
(***************************************************************************)
ExtractError == <<"Could not extract valid JSON from the response">>
ModelError == <<"model call failed">>

\* generate_summary without the repair step: anything but a bare object is a ValueError
generate_summary_no_repair(reply) ==
    IF reply.raised
    THEN [summary |-> PyNone, error_text |-> PyStr(ModelError), via |-> "Exception"]
    ELSE
    LET stripped == str_strip(reply.text)
        bare == str_startswith(stripped, "{") /\ str_endswith(stripped, "}")
        parsed == json_loads(stripped)
    IN  IF ~bare
        THEN [summary |-> PyNone, error_text |-> PyStr(ExtractError), via |-> "Exception"]
        ELSE IF parsed.ok
             THEN [summary |-> parsed.value, error_text |-> PyNone, via |-> "return"]
             ELSE [summary |-> PyNone, error_text |-> PyStr(stripped),
                   via |-> "JSONDecodeError"]

\* reply: [raised |-> BOOLEAN, text |-> token sequence] from model.generate_content
generate_summary(reply) ==
    IF reply.raised
    THEN [summary |-> PyNone, error_text |-> PyStr(ModelError), via |-> "Exception"]
    ELSE
    LET stripped == str_strip(reply.text)
        start == str_find(stripped, "{")
        end == str_rfind(stripped, "}") + 1
        bare == str_startswith(stripped, "{") /\ str_endswith(stripped, "}")
    IN  IF ~bare /\ ~(start # -1 /\ end # 0)
        THEN [summary |-> PyNone, error_text |-> PyStr(ExtractError), via |-> "Exception"]
        ELSE LET cleaned_response == IF bare THEN stripped
                                     ELSE str_slice(stripped, start, end)
                 parsed == json_loads(cleaned_response)
             IN  IF parsed.ok
                 THEN [summary |-> parsed.value, error_text |-> PyNone, via |-> "return"]
                 ELSE [summary |-> PyNone, error_text |-> PyStr(cleaned_response),
                       via |-> "JSONDecodeError"]

ModelReplies ==
    {[raised |-> TRUE, text |-> <<>>]}
    \cup {[raised |-> FALSE, text |-> t] : t \in SeqsUpTo(ReplyTokens, MaxReplyLen)}

SummaryInit ==
    /\ model_reply \in ModelReplies
    /\ summary_result = PyNone
    /\ summary_pc = "ready"

GenerateSummary ==
    /\ summary_pc = "ready"
    /\ summary_result' = generate_summary(model_reply)
    /\ summary_pc' = "done"
    /\ UNCHANGED model_reply
    /\ UNCHANGED <<spliceVars, utcVars, fetchVars, apiVars>>

InitSummary == SummaryInit /\ SpliceIdle /\ UtcIdle /\ FetchIdle /\ ApiIdle
NextSummary == GenerateSummary
SpecSummary == InitSummary /\ [][NextSummary]_vars

(***************************************************************************)
(* insert_custom_content                                                   *)
(***************************************************************************)
\* the placeholder paragraph: opening tag with its style, marker text, closing tag
placeholder == <<"<p style>", "!-- CUSTOM_CONTENT --!</p>">>
body_close == <<"</body>">>

insert_custom_content(template, custom) ==
    IF str_contains(template, placeholder)
    THEN str_replace(template, placeholder, custom)
    ELSE str_replace(template, body_close, custom \o body_close)

TemplateTokens == {"<p style>", "!-- CUSTOM_CONTENT --!</p>", "</body>", "<div>"}
Templates == SeqsUpTo(TemplateTokens, MaxTemplateLen)
CustomHtmls == {<<"<h1>">>, <<"<h1>", "</body>">>, placeholder}

(***************************************************************************)
(* Exceptions and responses                                                *)
(***************************************************************************)
HTTPException(status_code, detail) ==
    [type |-> "HTTPException", status_code |-> status_code, detail |-> detail]
PyException(type, message) == [type |-> type, status_code |-> 0, detail |-> message]
StatusText(n) == CASE n = 400 -> "400: " [] n = 404 -> "404: " [] n = 500 -> "500: "
\* str(e): an HTTPException prints as "<status_code>: <detail>"
exc_str(e) ==
    IF e.type = "HTTPException" THEN <<StatusText(e.status_code)>> \o e.detail
    ELSE e.detail

Return(value) == [raised |-> FALSE, exc |-> PyException("", <<>>), value |-> value]
Raise(e) == [raised |-> TRUE, exc |-> e, value |-> <<>>]

\* "except Exception as e: raise HTTPException(status_code=500, detail=str(e))";
\* HTTPException is itself a subclass of Exception
except_Exception(outcome) ==
    IF outcome.raised THEN Raise(HTTPException(500, exc_str(outcome.exc))) ELSE outcome

\* what the framework answers for the outcome of a handler
http_response(outcome) ==
    IF ~outcome.raised
    THEN [status_code |-> 200, detail |-> <<>>, body |-> outcome.value]
    ELSE IF outcome.exc.type = "HTTPException"
         THEN [status_code |-> outcome.exc.status_code, detail |-> outcome.exc.detail,
               body |-> <<>>]
         ELSE [status_code |-> 500, detail |-> <<"Internal Server Error">>, body |-> <<>>]

(***************************************************************************)
(* fetch_pdfs                                                              *)
(***************************************************************************)
InvalidDate == <<"Invalid date format. Please use YYYY-MM-DD format.">>

\* parse_date(date_str, "%Y-%m-%d"): the date, or None on ValueError
date_or_none(r) ==
    IF r.ok THEN [none |-> FALSE, date |-> Date(r.year, r.month, r.day)]
    ELSE [none |-> TRUE, date |-> NoDate]
parse_date(date_str) == date_or_none(strptime(date_str, DateFormat))

pdf_name(entry) == <<Digits[entry.pdf_name + 1], "_", "judgment", ".pdf">>

\* the loop over fetched_pdfs from entry i on; unreadable: the links whose
\* text extraction yields None
pdf_data_then(entry, rest) ==
    IF rest.raised THEN rest
    ELSE Return(<<[filename |-> pdf_name(entry), file_content |-> entry.link]>>
                \o rest.value)
RECURSIVE extract_all(_, _, _)
extract_all(fetched, i, unreadable) ==
    IF i > Len(fetched) THEN Return(<<>>)
    ELSE IF fetched[i].link \in unreadable
         THEN Raise(HTTPException(500, <<"Failed to extract text from PDF: ">>
                                       \o pdf_name(fetched[i])))
         ELSE pdf_data_then(fetched[i], extract_all(fetched, i + 1, unreadable))

\* the requests fetch_from_website makes: the listing, then every kept link
fetch_requests(page, kept) ==
    <<"requests.get listing">>
    \o (IF page.status = 200 /\ page.has_div /\ ~kept.raised
        THEN [k \in 1..Len(kept.value) |-> "requests.get document"] ELSE <<>>)

\* lines 377-388, after the date was parsed
fetch_and_extract(fetched, unreadable) ==
    IF fetched.raised THEN Raise(PyException("AttributeError", <<"no upload date">>))
    ELSE extract_all(fetched.value, 1, unreadable)

\* [outcome, calls] of the handler, given the result of parse_date
fetch_pdfs_of(parsed_date, page, unreadable) ==
    IF parsed_date.none
    THEN [outcome |-> except_Exception(Raise(HTTPException(400, InvalidDate))),
          calls |-> <<>>]
    ELSE [outcome |-> except_Exception(
                          fetch_and_extract(fetch_from_website(page, parsed_date.date),
                                            unreadable)),
          calls |-> fetch_requests(page, collect_pdf_links(page.items, 1,
                                                           parsed_date.date))]

fetch_pdfs(date_str, page, unreadable) ==
    fetch_pdfs_of(parse_date(date_str), page, unreadable)

(***************************************************************************)
(* generate_summaries                                                      *)
(***************************************************************************)
\* Summary(**summary): the record, or a ValidationError when a field is missing
Summary(summary) ==
    IF SummaryFields \subseteq summary.keys
    THEN Return(<<PyDict(SummaryFields, summary.date)>>)
    ELSE Raise(PyException("ValidationError", <<"field required">>))

error_text_str(v) == IF v.py = "None" THEN <<"None">> ELSE v.s

\* lines 397-400: the record of one document, or the exception raised for it
summary_or_raise(pdf_data, r) ==
    IF py_truthy(r.summary) THEN Summary(r.summary)
    ELSE Raise(HTTPException(500, <<"Failed to generate summary for: ">>
                                  \o pdf_data.filename \o <<" Error: ">>
                                  \o error_text_str(r.error_text)))

\* an exception ends the loop; there is no try/except in this handler
summary_then(made, rest) ==
    IF made.raised
    THEN [outcome |-> made, calls |-> <<"model.generate_content">>]
    ELSE [outcome |-> IF rest.outcome.raised THEN rest.outcome
                      ELSE Return(made.value \o rest.outcome.value),
          calls |-> <<"model.generate_content">> \o rest.calls]

\* the loop over pdf_data_list from document i on
RECURSIVE summarize_all(_, _)
summarize_all(pdf_data_list, i) ==
    IF i > Len(pdf_data_list) THEN [outcome |-> Return(<<>>), calls |-> <<>>]
    ELSE summary_then(summary_or_raise(pdf_data_list[i],
                                       generate_summary(pdf_data_list[i].reply)),
                      summarize_all(pdf_data_list, i + 1))

generate_summaries(pdf_data_list) == summarize_all(pdf_data_list, 1)

(***************************************************************************)
(* store_summaries_to_db, insert_all_to_db                                 *)
(***************************************************************************)
\* an insert_many that skips a document the collection already holds
RECURSIVE insert_new(_, _, _)
insert_new(collection, documents, k) ==
    IF k > Len(documents) THEN collection
    ELSE IF \E i \in 1..Len(collection) : collection[i].doc = documents[k]
         THEN insert_new(collection, documents, k + 1)
         ELSE insert_new(Append(collection, [oid |-> Len(collection) + 1,
                                             doc |-> documents[k]]),
                         documents, k + 1)
insert_many_deduplicating(collection, documents, written, failed) ==
    [collection |-> insert_new(collection, SubSeq(documents, 1, written), 1),
     raised |-> documents = <<>> \/ failed,
     inserted_ids |-> IF documents = <<>> THEN 0 ELSE written]

\* collection.insert_many(documents) without a transaction. written: how many
\* documents, in order, the server had taken when the call ended; failed: the
\* call raised. An empty list is refused by the client.
insert_many(collection, documents, written, failed) ==
    LET taken == IF documents = <<>> THEN 0 ELSE written
    IN  [collection |-> collection \o [k \in 1..taken |->
                            [oid |-> Len(collection) + k, doc |-> documents[k]]],
         raised |-> documents = <<>> \/ failed,
         inserted_ids |-> taken]

insert_all_to_db(collection, merged_data, written, failed) ==
    LET result == insert_many(collection, merged_data, written, failed)
    IN  [collection |-> result.collection,
         outcome |-> IF result.raised
                     THEN Raise(HTTPException(500,
                                  <<"Error inserting data into MongoDB: ">>))
                     ELSE Return(<<[inserted |-> result.inserted_ids]>>)]

store_summaries_to_db(collection, summaries, written, failed) ==
    LET result == insert_all_to_db(collection, summaries, written, failed)
    IN  [collection |-> result.collection,
         outcome |-> except_Exception(result.outcome),
         calls |-> <<"collection.insert_many">>]

(***************************************************************************)
(* generate_newsletter_endpoint                                            *)
(***************************************************************************)
NoArticles == <<"No articles found for the specified date.">>

\* collection.find({"date": date_str})
fetch_articles_from_mongodb(collection, date) ==
    LET date_str == strftime_date(date)
    IN  SelectSeq(collection, LAMBDA a : a.doc.date = date_str)

\* str(soup.body) of the generated HTML, or the fixed text when it has no body
extract_title_and_body(html) ==
    IF html = "html with body" THEN "<body>...</body>" ELSE "No body content found"

\* lines 422-428, after the articles were read; generated: [raised, html]
\* from model.generate_content
newsletter_of(articles, generated) ==
    IF articles = <<>>
    THEN [outcome |-> except_Exception(Raise(HTTPException(404, NoArticles))),
          calls |-> <<"collection.find">>]
    ELSE [outcome |-> except_Exception(
                          IF generated.raised
                          THEN Raise(PyException("Exception", ModelError))
                          ELSE Return(<<[body |-> extract_title_and_body(generated.html)]>>)),
          calls |-> <<"collection.find", "model.generate_content">>]

\* [outcome, calls] of the handler, given the result of parse_date
generate_newsletter_of(collection, parsed_date, generated) ==
    IF parsed_date.none
    THEN [outcome |-> except_Exception(Raise(HTTPException(400, InvalidDate))),
          calls |-> <<>>]
    ELSE newsletter_of(fetch_articles_from_mongodb(collection, parsed_date.date),
                       generated)

generate_newsletter_endpoint(collection, date_str, generated) ==
    generate_newsletter_of(collection, parse_date(date_str), generated)

(***************************************************************************)
(* Request handlers. A handler is an async function that never awaits, so  *)
(* it runs to completion before the event loop takes the next request.     *)
(***************************************************************************)
D_2024_7_16 == <<"2", "0", "2", "4", "-", "7", "-", "1", "6">>
D_2024_02_30 == <<"2", "0", "2", "4", "-", "0", "2", "-", "3", "0">>
DateInputs == {D_2024_07_16, D_2024_7_16, D_16_07_2024, D_2024_02_30}

LinkOn(text, href, status) ==
    [has_a |-> TRUE, href |-> href, has_upload_div |-> TRUE, upload |-> text,
     download |-> status]
Page(items) == [status |-> 200, has_div |-> TRUE, items |-> items]
ApiSites ==
    {[status |-> 503, has_div |-> FALSE, items |-> <<>>],
     Page(<<LinkOn(U_17_07_2024, ".pdf", 200)>>),
     Page(<<LinkOn(U_16_07_2024, ".pdf", 200), LinkOn(U_16_07_2024, "view-pdf", 200)>>)}

FetchPdfs(date_str, page, unreadable) ==
    /\ sched.pc = "idle"
    /\ LET r == fetch_pdfs(date_str, page, unreadable)
       IN  /\ request' = [op |-> "fetch_pdfs", user_date |-> date_str]
           /\ env' = [page |-> page, unreadable |-> unreadable]
           /\ response' = http_response(r.outcome)
           /\ calls' = r.calls
    /\ sched' = SchedIdle
    /\ UNCHANGED store
    /\ UNCHANGED <<spliceVars, summaryVars, utcVars, fetchVars>>

FileNames == {<<"1", "_", "judgment", ".pdf">>, <<"2", "_", "judgment", ".pdf">>,
              <<"3", "_", "order", ".pdf">>}
Reply(text) == [raised |-> FALSE, text |-> text]
ApiReplies == {Reply(<<"prose", "{", "F", "}">>), Reply(<<"{", "G", "}">>),
               Reply(<<"{", "f", "}">>), Reply(<<"{", "}">>), Reply(<<"prose">>)}
PdfDataInputs == [filename : FileNames, reply : ApiReplies]

GenerateSummaries(pdf_data_list) ==
    /\ sched.pc = "idle"
    /\ LET r == generate_summaries(pdf_data_list)
       IN  /\ request' = [op |-> "generate_summaries", pdf_data_list |-> pdf_data_list]
           /\ env' = [none |-> TRUE]
           /\ response' = http_response(r.outcome)
           /\ calls' = r.calls
    /\ sched' = SchedIdle
    /\ UNCHANGED store
    /\ UNCHANGED <<spliceVars, summaryVars, utcVars, fetchVars>>

SummaryInputs == {PyDict(SummaryFields, D_2024_07_16), PyDict(SummaryFields, D_16_07_2024)}

StoreSummaries(summaries, written, failed) ==
    /\ sched.pc = "idle"
    /\ Len(store) + Len(summaries) <= MaxStore
    /\ LET r == store_summaries_to_db(store, summaries, written, failed)
       IN  /\ request' = [op |-> "store_summaries", summaries |-> summaries]
           /\ env' = [written |-> written, failed |-> failed]
           /\ response' = http_response(r.outcome)
           /\ calls' = r.calls
           /\ store' = r.collection
    /\ sched' = SchedIdle
    /\ UNCHANGED <<spliceVars, summaryVars, utcVars, fetchVars>>

Generations == {[raised |-> TRUE, html |-> ""], [raised |-> FALSE, html |-> "html with body"],
                [raised |-> FALSE, html |-> "html without body"]}

GenerateNewsletter(date_str, generated) ==
    /\ sched.pc = "idle"
    /\ LET r == generate_newsletter_endpoint(store, date_str, generated)
       IN  /\ request' = [op |-> "generate_newsletter", date |-> date_str]
           /\ env' = [generated |-> generated]
           /\ response' = http_response(r.outcome)
           /\ calls' = r.calls
    /\ sched' = SchedIdle
    /\ UNCHANGED store
    /\ UNCHANGED <<spliceVars, summaryVars, utcVars, fetchVars>>

ReadRoot ==
    /\ sched.pc = "idle"
    /\ request' = [op |-> "read_root"]
    /\ env' = [none |-> TRUE]
    /\ response' = [status_code |-> 200, detail |-> <<>>,
                    body |-> <<[message |-> "Welcome to the SeraAI Agent FastAPI"]>>]
    /\ calls' = <<>>
    /\ sched' = SchedIdle
    /\ UNCHANGED store
    /\ UNCHANGED <<spliceVars, summaryVars, utcVars, fetchVars>>

(***************************************************************************)
(* schedule_newsletter_endpoint, one step per provider call                *)
(***************************************************************************)
\* templates[1]
select_first_template(templates) ==
    IF Len(templates) >= 1 THEN Return(<<templates[1]>>)
    ELSE Raise(PyException("IndexError", <<"list index out of range">>))
select_template(templates) ==
    IF Len(templates) >= 2 THEN Return(<<templates[2]>>)
    ELSE Raise(PyException("IndexError", <<"list index out of range">>))

get_templates(listing) ==
    IF listing.raised
    THEN Raise(HTTPException(500, <<"Exception when calling get_smtp_templates">>))
    ELSE Return(listing.value)

preview_template(preview) ==
    IF preview.raised
    THEN Raise(HTTPException(500, <<"Exception when calling get_smtp_template">>))
    ELSE Return(preview.html)

create_campaign_draft(email_campaigns, campaign) ==
    CASE campaign.raised = "ApiException" ->
           Raise(HTTPException(500, <<"Exception when calling create_email_campaign">>))
      [] campaign.raised = "Exception" ->
           Raise(HTTPException(500, <<"An unexpected error occurred">>))
      [] OTHER ->
           Return(<<[message |-> "Campaign scheduled successfully. ID: ",
                     id |-> campaign.id]>>)

\* the request ends here with the exception caught by the handler's except
ScheduleFails(outcome) ==
    /\ response' = http_response(except_Exception(outcome))
    /\ sched' = [sched EXCEPT !.pc = "idle"]

ScheduleGetTemplates(data, provider, now) ==
    /\ sched.pc = "idle"
    /\ request' = [op |-> "schedule_newsletter", data |-> data]
    /\ env' = [provider |-> provider, today |-> now]
    /\ calls' = <<"get_smtp_templates">>
    /\ LET templates == get_templates(provider.templates)
           selected_template == select_template(templates.value)
       IN  IF templates.raised
           THEN response' = http_response(except_Exception(templates))
                /\ sched' = SchedIdle
           ELSE IF selected_template.raised
                THEN response' = http_response(except_Exception(selected_template))
                     /\ sched' = SchedIdle
                ELSE response' = NoResponse
                     /\ sched' = [SchedIdle EXCEPT
                                     !.pc = "selected",
                                     !.selected_template = selected_template.value[1]]
    /\ UNCHANGED store
    /\ UNCHANGED <<spliceVars, summaryVars, utcVars, fetchVars>>

SchedulePreviewTemplate ==
    /\ sched.pc = "selected"
    /\ calls' = Append(calls, "get_smtp_template")
    /\ LET template_html_ == preview_template(env.provider.preview)
       IN  IF template_html_.raised
           THEN ScheduleFails(template_html_)
           ELSE response' = response
                /\ sched' = [sched EXCEPT !.pc = "previewed",
                                          !.previewed_id = sched.selected_template.id,
                                          !.template_html = template_html_.value]
    /\ UNCHANGED <<store, request, env>>
    /\ UNCHANGED <<spliceVars, summaryVars, utcVars, fetchVars>>

\* the campaign of lines 322-329
email_campaigns_of(data, html, scheduled_utc_time) ==
    [sender |-> data.sender_name, htmlContent |-> html,
     recipients |-> data.list_id, scheduledAt |-> scheduled_utc_time]

ScheduleComposed(scheduled_utc_time) ==
    IF scheduled_utc_time.raised
    THEN ScheduleFails(Raise(PyException("ValueError",
                                         <<"time data does not match format">>)))
    ELSE /\ response' = response
         /\ sched' = [sched EXCEPT
                        !.pc = "composed",
                        !.scheduled_utc_time = scheduled_utc_time.value,
                        !.email_campaigns =
                            <<email_campaigns_of(
                                  request.data,
                                  insert_custom_content(sched.template_html,
                                                        request.data.body),
                                  scheduled_utc_time.value)>>]

\* subject, scheduled time and spliced HTML are computed without a provider call
ScheduleCompose ==
    /\ sched.pc = "previewed"
    /\ ScheduleComposed(convert_to_utc(strftime_date(env.today),
                                       request.data.scheduled_time,
                                       request.data.period_of_time))
    /\ UNCHANGED <<store, request, env, calls>>
    /\ UNCHANGED <<spliceVars, summaryVars, utcVars, fetchVars>>

ScheduleCreateCampaign ==
    /\ sched.pc = "composed"
    /\ calls' = Append(calls, "create_email_campaign")
    /\ response' = http_response(except_Exception(
                        create_campaign_draft(sched.email_campaigns[1],
                                              env.provider.campaign)))
    /\ sched' = [sched EXCEPT !.pc = "idle"]
    /\ UNCHANGED <<store, request, env>>
    /\ UNCHANGED <<spliceVars, summaryVars, utcVars, fetchVars>>

T_09_30 == <<"0", "9", ":", "3", "0">>
T_12_15 == <<"1", "2", ":", "1", "5">>
T_13_00 == <<"1", "3", ":", "0", "0">>
AM == <<"A", "M">>
PM == <<"P", "M">>
ScheduleData(times, periods) ==
    [body : {<<"<h1>">>}, list_id : {2}, sender_name : {"Seraphic Advisors"},
     scheduled_time : times, period_of_time : periods]
TemplateList(n) == [k \in 1..n |-> [id |-> 10 + k, name |-> "template"]]
Providers(counts, htmls) ==
    [templates : {[raised |-> TRUE, value |-> <<>>]}
                 \cup {[raised |-> FALSE, value |-> TemplateList(n)] : n \in counts},
     preview : {[raised |-> TRUE, html |-> <<>>]}
               \cup {[raised |-> FALSE, html |-> h] : h \in htmls},
     campaign : {[raised |-> "no", id |-> 7], [raised |-> "ApiException", id |-> 0],
                 [raised |-> "Exception", id |-> 0]}]
TemplateHtmls == {<<"<div>">> \o placeholder \o <<"</body>">>, <<"<div>", "</body>">>}

SpliceInit ==
    /\ template_html \in Templates
    /\ custom_html \in CustomHtmls
    /\ modified_html = <<>>
    /\ splice_pc = "ready"

InsertCustomContent ==
    /\ splice_pc = "ready"
    /\ modified_html' = insert_custom_content(template_html, custom_html)
    /\ splice_pc' = "done"
    /\ UNCHANGED <<template_html, custom_html>>
    /\ UNCHANGED <<summaryVars, utcVars, fetchVars, apiVars>>

InitSplice == SpliceInit /\ SummaryIdle /\ UtcIdle /\ FetchIdle /\ ApiIdle
NextSplice == InsertCustomContent
SpecSplice == InitSplice /\ [][NextSplice]_vars

ConvertToUtc ==
    /\ utc_pc = "ready"
    /\ utc_result' = convert_to_utc(strftime_date(today), ist_time_str, am_pm)
    /\ utc_pc' = "done"
    /\ UNCHANGED <<today, ist_time_str, am_pm>>
    /\ UNCHANGED <<spliceVars, summaryVars, fetchVars, apiVars>>

InitUtc == UtcInit /\ SpliceIdle /\ SummaryIdle /\ FetchIdle /\ ApiIdle
NextUtc == ConvertToUtc
SpecUtc == InitUtc /\ [][NextUtc]_vars

FetchFromWebsite ==
    /\ fetch_pc = "ready"
    /\ fetched_pdfs' = fetch_from_website(site, user_date)
    /\ fetch_pc' = "done"
    /\ UNCHANGED <<site, user_date>>
    /\ UNCHANGED <<spliceVars, summaryVars, utcVars, apiVars>>

InitFetch == FetchInit /\ SpliceIdle /\ SummaryIdle /\ UtcIdle /\ ApiIdle
NextFetch == FetchFromWebsite
SpecFetch == InitFetch /\ [][NextFetch]_vars

(***************************************************************************)
(* The service: the six operations against one store                       *)
(***************************************************************************)
InitApi == ApiIdle /\ SpliceIdle /\ SummaryIdle /\ UtcIdle /\ FetchIdle
NextApi ==
    \/ \E d \in DateInputs, page \in ApiSites, unreadable \in {{}, {1}} :
          FetchPdfs(d, page, unreadable)
    \/ \E docs \in SeqsUpTo({d \in PdfDataInputs : d.reply.text[1] = "prose"}, 1) :
          GenerateSummaries(docs)
    \/ \E summaries \in SeqsUpTo(SummaryInputs, MaxBatch) :
          \/ StoreSummaries(summaries, Len(summaries), FALSE)
          \/ \E written \in 0..Len(summaries) : StoreSummaries(summaries, written, TRUE)
    \/ \E d \in DateInputs, generated \in Generations : GenerateNewsletter(d, generated)
    \/ \E data \in ScheduleData({T_09_30, T_13_00}, {AM}),
          provider \in Providers({2}, {<<"<div>", "</body>">>}) :
          ScheduleGetTemplates(data, provider, Date(2024, 7, 16))
    \/ SchedulePreviewTemplate
    \/ ScheduleCompose
    \/ ScheduleCreateCampaign
    \/ ReadRoot
SpecApi == InitApi /\ [][NextApi]_vars

\* one summarisation request after another, against every reply of the model
InitSummaries == InitApi
NextSummaries ==
    \/ \E docs \in SeqsUpTo(PdfDataInputs, MaxDocs) : GenerateSummaries(docs)
    \/ ReadRoot
SpecSummaries == InitSummaries /\ [][NextSummaries]_vars

\* one schedule request after another, against every behaviour of the provider
InitSchedule == InitApi
NextSchedule ==
    \/ \E data \in ScheduleData({T_09_30, T_12_15, T_13_00, <<>>}, {AM, PM, <<"X", "M">>}),
          provider \in Providers(0..MaxTemplates, TemplateHtmls),
          now \in {Date(2024, 7, 16), Date(2024, 3, 1)} :
          ScheduleGetTemplates(data, provider, now)
    \/ SchedulePreviewTemplate
    \/ ScheduleCompose
    \/ ScheduleCreateCampaign
SpecSchedule == InitSchedule /\ [][NextSchedule]_vars

\* C1: fetch documents and generate newsletter answer a date string that fails
\* YYYY-MM-DD parsing with 400, not 500, and make no listing retrieval, store
\* read or model call for it.
InvalidDateInputs == {D_16_07_2024, D_2024_02_30}
RequestDate == IF request.op = "fetch_pdfs" THEN request.user_date ELSE request.date

C1_InvalidDateIs400 ==
    (request.op \in {"fetch_pdfs", "generate_newsletter"}
     /\ RequestDate \in InvalidDateInputs) =>
        response.status_code = 400 /\ calls = <<>>

\* C2: generate newsletter for a valid date with no stored article of that date
\* answers 404 and makes no model call.
C2_NoArticlesIs404 ==
    (request.op = "generate_newsletter"
     /\ request.date \in {D_2024_07_16, D_2024_7_16}
     /\ \A i \in 1..Len(store) : store[i].doc.date # D_2024_07_16) =>
        /\ response.status_code = 404
        /\ \A k \in 1..Len(calls) : calls[k] # "model.generate_content"

\* C5: generate summaries returns one complete record per document, in input
\* order, or answers 500 with a detail that names the first failing document;
\* a parseable reply that is empty or lacks a field is such a failure.
CompleteReply(pdf_data) ==
    pdf_data.reply.text \in {<<"prose", "{", "F", "}">>, <<"{", "G", "}">>}
ReplyDate(pdf_data) ==
    IF pdf_data.reply.text = <<"{", "G", "}">> THEN D_16_07_2024 ELSE D_2024_07_16

C5_AllOrNothing ==
    request.op = "generate_summaries" =>
        LET docs == request.pdf_data_list
            failing == {i \in 1..Len(docs) : ~CompleteReply(docs[i])}
        IN  IF failing = {}
            THEN /\ response.status_code = 200
                 /\ Len(response.body) = Len(docs)
                 /\ \A i \in 1..Len(docs) :
                       /\ response.body[i].keys = SummaryFields
                       /\ response.body[i].date = ReplyDate(docs[i])
            ELSE /\ response.status_code = 500
                 /\ response.body = <<>>
                 /\ str_contains(response.detail, docs[SetMin(failing)].filename)

\* C6: every stored article has a date that parses as YYYY-MM-DD.
C6_StoredDatesParse ==
    \A i \in 1..Len(store) : ~parse_date(store[i].doc.date).none

\* C7: the store is append-only. Only store summaries changes it; a successful
\* call with n records adds exactly those n, in order, under new identifiers,
\* whatever is stored already, and reports n; a failing call answers 500; no
\* step removes or alters a stored article. As stated, a failing call adds
\* nothing; as amended, a failing call may leave the first few of its records
\* in the store.
IsPrefix(a, b) == Len(a) <= Len(b) /\ SubSeq(b, 1, Len(a)) = a
Added == [k \in 1..(Len(store') - Len(store)) |-> store'[Len(store) + k]]

C7_Frame ==
    /\ IsPrefix(store, store')
    /\ store' # store => request'.op = "store_summaries"
    /\ \A k \in 1..Len(Added) : \A i \in 1..Len(store) : Added[k].oid # store[i].oid
    /\ \A k, j \in 1..Len(Added) : Added[k].oid = Added[j].oid => k = j

C7_Success ==
    (request'.op = "store_summaries" /\ response'.status_code = 200) =>
        /\ request'.summaries # <<>>
        /\ Len(Added) = Len(request'.summaries)
        /\ \A k \in 1..Len(Added) : Added[k].doc = request'.summaries[k]
        /\ response'.body = <<[inserted |-> Len(request'.summaries)]>>

C7_FailureAddsNone ==
    (request'.op = "store_summaries" /\ response'.status_code # 200) =>
        response'.status_code = 500 /\ store' = store

C7_FailureAddsPrefix ==
    (request'.op = "store_summaries" /\ response'.status_code # 200) =>
        /\ response'.status_code = 500
        /\ Len(Added) <= Len(request'.summaries)
        /\ \A k \in 1..Len(Added) : Added[k].doc = request'.summaries[k]

C10_CampaignOnlyAfterAllSteps ==
    request.op = "schedule_newsletter" =>
        LET provider == env.provider
            listed == ~provider.templates.raised /\ Len(provider.templates.value) >= 2
            fetched == ~provider.preview.raised
            timed == /\ request.data.scheduled_time \in {T_09_30, T_12_15}
                     /\ request.data.period_of_time \in {AM, PM}
            called(name) == \E k \in 1..Len(calls) : calls[k] = name
        IN  /\ IsPrefix(calls, <<"get_smtp_templates", "get_smtp_template",
                                 "create_email_campaign">>)
            /\ called("get_smtp_template") => listed
            /\ called("create_email_campaign") =>
                  /\ listed /\ fetched /\ timed
                  /\ sched.previewed_id = provider.templates.value[2].id
            /\ (sched.pc = "idle" /\ ~(listed /\ fetched /\ timed)) =>
                  response.status_code = 500 /\ ~called("create_email_campaign")
            /\ (sched.pc = "idle" /\ listed /\ fetched /\ timed) =>
                  /\ called("create_email_campaign")
                  /\ response.status_code = IF provider.campaign.raised = "no"
                                            THEN 200 ELSE 500

\* a request went through all three provider calls and was answered 200
C10_Witness ==
    /\ request.op = "schedule_newsletter"
    /\ sched.pc = "idle"
    /\ calls = <<"get_smtp_templates", "get_smtp_template", "create_email_campaign">>
    /\ response.status_code = 200
    /\ sched.email_campaigns[1].scheduledAt =
          <<"2", "0", "2", "4", "-", "0", "7", "-", "1", "6", "T",
            "0", "4", ":", "0", "0", ":", "0", "0", ".",
            "0", "0", "0", "0", "0", "0", "Z">>

\* C8: when fetch_from_website returns, its result lists, in listing order,
\* exactly the document links whose upload date is the target date and whose
\* download answered 200: no link of another day (one day off included), a
\* failed download omitted without dropping the others, and an empty result
\* and no error when the listing page is not answered with 200.
UploadedOn(li, target) ==
    \E i \in 1..(Len(li.upload) - 9) :
        /\ SubSeq(li.upload, i, i + 9)
             = Pad2(target.day) \o <<"-">> \o Pad2(target.month) \o <<"-">>
               \o Pad4(target.year)
        /\ \A j \in 1..(i - 1) : ~is_date_token(li.upload, j)
Wanted(i) ==
    LET li == site.items[i]
    IN  /\ li.has_a /\ li.href \in {".pdf", "view-pdf"}
        /\ li.has_upload_div /\ UploadedOn(li, user_date)
        /\ li.download = 200

C8_ExactlyTheMatchingLinks ==
    fetch_pc = "done" =>
        LET got == fetched_pdfs.value
        IN  /\ site.status # 200 => (~fetched_pdfs.raised /\ got = <<>>)
            /\ (~fetched_pdfs.raised /\ site.status = 200 /\ site.has_div) =>
                  /\ \A k \in 1..Len(got) : got[k].link \in 1..Len(site.items)
                                             /\ Wanted(got[k].link)
                  /\ \A k \in 1..(Len(got) - 1) : got[k].link < got[k + 1].link
                  /\ \A i \in 1..Len(site.items) :
                        Wanted(i) => \E k \in 1..Len(got) : got[k].link = i
            /\ (\A i \in 1..Len(site.items) :
                    site.items[i].upload \in {U_16_07_2024, U_17_07_2024, <<>>})
                  => ~fetched_pdfs.raised

\* of two links uploaded on the target day the first download failed and the
\* second is returned
C8_Witness ==
    /\ fetch_pc = "done"
    /\ Len(site.items) >= 2
    /\ site.items[1].upload = U_16_07_2024 /\ site.items[1].href = "view-pdf"
    /\ site.items[1].download = 404
    /\ user_date = Date(2024, 7, 16)
    /\ Len(fetched_pdfs.value) = 1
    /\ fetched_pdfs.value[1].link = 2

\* C9: a local time hh:mm AM/PM (hh 01..12, mm 00..59) on a local date in the
\* UTC+5:30 zone converts to the UTC instant 5 hours 30 minutes earlier, 12 AM
\* being 00:mm and 12 PM 12:mm, on the previous day when the local time is
\* before 05:30 AM; 2024-07-16 09:30 AM gives 2024-07-16T04:00:00.000000Z.
PrevDay(d) ==
    IF d.day > 1 THEN Date(d.year, d.month, d.day - 1)
    ELSE IF d.month = 3
         THEN Date(d.year, 2, IF d.year % 4 = 0 /\ d.year % 100 # 0 THEN 29 ELSE 28)
    ELSE IF d.month = 1 THEN Date(d.year - 1, 12, 31)
    ELSE Date(d.year, d.month - 1, IF d.month - 1 \in {4, 6, 9, 11} THEN 30 ELSE 31)

IsoInstant(d, mins) ==
    Pad4(d.year) \o <<"-">> \o Pad2(d.month) \o <<"-">> \o Pad2(d.day) \o <<"T">>
    \o Pad2(mins \div 60) \o <<":">> \o Pad2(mins % 60)
    \o <<":", "0", "0", ".", "0", "0", "0", "0", "0", "0", "Z">>

C9_UtcIsIstMinus530 ==
    (utc_pc = "done" /\ ist_time_str \in WellFormedTimes
                     /\ am_pm \in {<<"A", "M">>, <<"P", "M">>}) =>
        LET h == CHOOSE x \in 1..12 : Pad2(x) = SubSeq(ist_time_str, 1, 2)
            m == CHOOSE x \in 0..59 : Pad2(x) = SubSeq(ist_time_str, 4, 5)
            local == ((h % 12) + (IF am_pm = <<"P", "M">> THEN 12 ELSE 0)) * 60 + m
        IN  /\ ~utc_result.raised
            /\ utc_result.value =
                  IF local >= 330 THEN IsoInstant(today, local - 330)
                  ELSE IsoInstant(PrevDay(today), local + 1440 - 330)
            /\ (today = Date(2024, 7, 16) /\ h = 9 /\ m = 30 /\ am_pm = <<"A", "M">>) =>
                  utc_result.value =
                      <<"2", "0", "2", "4", "-", "0", "7", "-", "1", "6", "T",
                        "0", "4", ":", "0", "0", ":", "0", "0", ".",
                        "0", "0", "0", "0", "0", "0", "Z">>

\* 12:15 AM on 2024-03-01 was converted and fell on the leap day before
C9_Witness ==
    /\ utc_pc = "done"
    /\ today = Date(2024, 3, 1)
    /\ ist_time_str = <<"1", "2", ":", "1", "5">>
    /\ am_pm = <<"A", "M">>
    /\ utc_result.value =
          <<"2", "0", "2", "4", "-", "0", "2", "-", "2", "9", "T",
            "1", "8", ":", "4", "5", ":", "0", "0", ".",
            "0", "0", "0", "0", "0", "0", "Z">>

\* C4: generate_summary ends in exactly one of three outcomes: a record and no
\* error when the trimmed reply, cut from its first "{" to its last "}", parses
\* as JSON; no record and that cut text when it fails JSON decoding; no record
\* and an exception string otherwise. A reply without "{" or without "}" always
\* ends in the third outcome.
Trimmed(t) ==
    LET inked == {i \in 1..Len(t) : t[i] # " "}
    IN  IF inked = {} THEN <<>> ELSE SubSeq(t, SetMin(inked), SetMax(inked))
Opens(t) == {i \in 1..Len(t) : t[i] = "{"}
Closes(t) == {i \in 1..Len(t) : t[i] = "}"}
Candidate(t) == SubSeq(t, SetMin(Opens(t)), SetMax(Closes(t)))

C4_ThreeOutcomes ==
    summary_pc = "done" =>
        LET r == summary_result
            t == Trimmed(model_reply.text)
            paired == ~model_reply.raised /\ Opens(t) # {} /\ Closes(t) # {}
        IN  /\ r.via \in {"return", "JSONDecodeError", "Exception"}
            /\ (r.via = "return") <=> (paired /\ json_loads(Candidate(t)).ok)
            /\ (r.via = "JSONDecodeError") <=> (paired /\ ~json_loads(Candidate(t)).ok)
            /\ r.via = "return" =>
                  /\ r.summary.py = "dict"
                  /\ r.summary = json_loads(Candidate(t)).value
                  /\ r.error_text = PyNone
            /\ r.via = "JSONDecodeError" =>
                  r.summary = PyNone /\ r.error_text = PyStr(Candidate(t))
            /\ r.via = "Exception" =>
                  /\ r.summary = PyNone
                  /\ r.error_text = PyStr(IF model_reply.raised THEN ModelError
                                                                ELSE ExtractError)
            /\ (Opens(model_reply.text) = {} \/ Closes(model_reply.text) = {}) =>
                  r.via = "Exception"

\* a reply with prose around a JSON object was repaired and parsed
C4_Witness ==
    /\ summary_pc = "done"
    /\ ~model_reply.raised
    /\ Len(model_reply.text) = 4
    /\ model_reply.text[1] = "prose"
    /\ summary_result.via = "return"
    /\ summary_result.summary.keys = SummaryFields

\* C3: the custom HTML replaces exactly one occurrence of the placeholder if
\* the template has one, otherwise it is inserted exactly once immediately
\* before the closing body tag; the rest of the template is unchanged and the
\* custom HTML is never dropped.
SplicedAt(mark, keep) ==
    \E i \in 1..(Len(template_html) - Len(mark) + 1) :
        /\ SubSeq(template_html, i, i + Len(mark) - 1) = mark
        /\ modified_html = SubSeq(template_html, 1, i - 1) \o custom_html \o keep
                           \o SubSeq(template_html, i + Len(mark), Len(template_html))

C3_SingleSplice ==
    splice_pc = "done" =>
        IF str_contains(template_html, placeholder)
        THEN SplicedAt(placeholder, <<>>)
        ELSE SplicedAt(body_close, body_close)

====
